---- MODULE Spec2Model ----
(***************************************************************************)
(* Two solvers, each answering one request per run.                        *)
(*                                                                         *)
(* Belts (src/belts/main.py): a feasible-flow problem with lower bounds    *)
(* and node capacities, reduced to max-flow on a node-split graph.         *)
(* Numbers are naturals; the tolerance comparisons of the source           *)
(* (x > 1e-9, abs(x) < 1e-9) are exact on them (x > 0, x = 0).             *)
(* Names are sequences of characters, so that the string operations of     *)
(* the source (suffixing, endswith, split) are computed, not assumed.      *)
(*                                                                         *)
(* Factory (src/factory/main.py): a steady-state production plan as a      *)
(* linear program over recipe rates, solved in two modes.  Numbers are     *)
(* exact rationals <<n, d>>, as the Fractions of the source; the           *)
(* conversion to float keeps the value, and the tolerance comparisons     *)
(* are exact.                                                              *)
(***************************************************************************)
EXTENDS Integers, Sequences, FiniteSets, TLC

VARIABLES
    input_data,     \* the decoded request document
    pc,             \* position in the program
    node_data,      \* belts __main__: name -> {supply, cap, demand}
    G_cap,          \* G_transformed: edge (u, v) -> capacity
    G_nodes,        \* G_transformed: node set
    node_balance,   \* transformed node -> net balance
    total_demand_required,
    flow_dict,      \* flow on the edges of G_transformed
    solution,       \* the response document
    constants,      \* factory: the result of _preprocess_constants
    raw_items_order,\* factory: the order in which the set raw_items iterates
    lp_solves,      \* factory: the LPs solved so far, <<mode, status>> each
    opt_vars,       \* factory: recipe -> varValue after the optimize LP
    recipe_vars,    \* factory: recipe -> varValue after the max-rate LP
    max_rate        \* factory: target_rate_var.varValue

belts_state == <<node_data, G_cap, G_nodes, node_balance,
                 total_demand_required, flow_dict>>

factory_state == <<constants, raw_items_order, lp_solves, opt_vars,
                   recipe_vars, max_rate>>

vars == <<input_data, pc, solution, belts_state, factory_state>>

----------------------------------------------------------------------------
(* Bounds of the explored requests *)

MaxEdges == 3
CoreEdges == 2
MaxAmount == 1

(* Program constants *)

Inf == 1000000
Absent == -1

----------------------------------------------------------------------------
(* Strings as character sequences *)

S1 == <<"s">>
AB == <<"a", "_", "b">>
T1 == <<"t">>
NoName == <<>>
Names == {S1, AB, T1}

SUF_IN == <<"_", "i", "n">>
SUF_OUT == <<"_", "o", "u", "t">>
S_STAR == <<"_", "s", "_", "s", "t", "a", "r", "_">>
T_STAR == <<"_", "t", "_", "s", "t", "a", "r", "_">>

InName(n) == n \o SUF_IN
OutName(n) == n \o SUF_OUT

EndsWith(n, suf) ==
    /\ Len(n) >= Len(suf)
    /\ SubSeq(n, Len(n) - Len(suf) + 1, Len(n)) = suf

\* n.split("_")[0]: the characters before the first "_" (all of n if none)
SplitFirst(n) ==
    LET us == {i \in 1..Len(n) : n[i] = "_"}
    IN  IF us = {} THEN n
        ELSE SubSeq(n, 1, (CHOOSE i \in us : \A j \in us : i <= j) - 1)

----------------------------------------------------------------------------
(* Arithmetic with float('inf') *)

Sub(a, b) == IF a = Inf THEN Inf ELSE a - b
Abs(x) == IF x < 0 THEN -x ELSE x
Get(v, default) == IF v = Absent THEN default ELSE v

RECURSIVE SumOver(_, _)
SumOver(f, S) ==
    IF S = {} THEN 0
    ELSE LET x == CHOOSE y \in S : TRUE IN f[x] + SumOver(f, S \ {x})

----------------------------------------------------------------------------
(* Requests *)

Amounts == 0..MaxAmount

\* "nodes" entries: Absent (no "capacity" key) or a capacity
NodeEntries == {Absent} \cup Amounts

Mappings(keys, vals) == UNION {[d -> vals] : d \in SUBSET keys}

\* Who is source, node and sink.  A request is regular when S1 is the one
\* source, T1 the sink and AB a declared uncapped node; the explored
\* requests depart from that in at most one way.
Irregularities(r) ==
    LET Count(b) == IF b THEN 1 ELSE 0
    IN  Count(DOMAIN r.sources = {}) + Count(r.sink # T1)
        + Count(S1 \in DOMAIN r.nodes) + Count(T1 \in DOMAIN r.nodes)
        + Count(AB \notin DOMAIN r.nodes \/ (AB \in DOMAIN r.nodes /\ r.nodes[AB] # Absent))

Roles ==
    {r \in [sources : Mappings({S1}, 1..MaxAmount),
            nodes   : Mappings(Names, NodeEntries),
            sink    : {NoName, T1, S1}] : Irregularities(r) <= 1}

\* The edge lists: up to MaxEdges of the slots of EdgeTemplate, in its order,
\* each with its own (lo, hi).  Two slots join the same pair of nodes.
EdgeTemplate ==
    <<  <<S1, AB>>, <<S1, AB>>, <<AB, T1>>, <<S1, T1>>, <<AB, S1>>, <<T1, AB>>  >>

RECURSIVE EdgeLists(_, _)
EdgeLists(slot, room) ==
    IF slot > Len(EdgeTemplate) THEN {<<>>}
    ELSE LET rest == EdgeLists(slot + 1, room)
             here == IF room = 0 THEN {}
                     ELSE {<<[from |-> EdgeTemplate[slot][1], to |-> EdgeTemplate[slot][2],
                              lo |-> l, hi |-> h]>> \o q :
                             l \in Amounts, h \in Amounts,
                             q \in EdgeLists(slot + 1, room - 1)}
         IN  rest \cup here

----------------------------------------------------------------------------
(* Documents *)

NoMessage == [kind |-> "none", from |-> NoName, to |-> NoName]
NoDeficit == [demand_balance |-> 0, tight_nodes |-> {}, tight_edges |-> <<>>]

NoSolution ==
    [status |-> "none", keys |-> {}, message |-> NoMessage,
     max_flow_per_min |-> 0, flows |-> <<>>, cut_reachable |-> {},
     deficit |-> NoDeficit]

ErrorDoc(kind, u, v) ==
    [status |-> "error", keys |-> {"status", "message"},
     message |-> [kind |-> kind, from |-> u, to |-> v],
     max_flow_per_min |-> 0, flows |-> <<>>, cut_reachable |-> {},
     deficit |-> NoDeficit]

Put(f, k, v) == [x \in DOMAIN f \cup {k} |-> IF x = k THEN v ELSE f[x]]

----------------------------------------------------------------------------
(* __main__: decode the request into node_data *)

SourceEntry(q) == [supply |-> q, cap |-> Absent, demand |-> Absent]
NodeEntry(c) == [supply |-> Absent, cap |-> c, demand |-> Absent]
SinkEntry(d) == [supply |-> Absent, cap |-> Absent, demand |-> d]

TotalSupply(sources) == SumOver(sources, DOMAIN sources)

\* the sources loop, then the nodes loop: a later assignment to the same
\* name replaces the earlier entry
NodeDataOf(sources, nodes) ==
    [n \in DOMAIN sources \cup DOMAIN nodes |->
        IF n \in DOMAIN nodes THEN NodeEntry(nodes[n])
        ELSE SourceEntry(sources[n])]

Main ==
    /\ pc = "main"
    /\ LET sources == input_data.sources
           nodes == input_data.nodes
           sink_name == input_data.sink
           graph_data == input_data.edges
           total_supply == TotalSupply(sources)
           nd == NodeDataOf(sources, nodes)
       IN  IF sink_name = NoName
           THEN /\ solution' = ErrorDoc("missing sink", NoName, NoName)
                /\ pc' = "done"
                /\ node_data' = nd
           ELSE IF graph_data = <<>>
           THEN /\ solution' = ErrorDoc("missing edges", NoName, NoName)
                /\ pc' = "done"
                /\ node_data' = Put(nd, sink_name, SinkEntry(total_supply))
           ELSE IF DOMAIN sources = {}
           THEN /\ solution' = ErrorDoc("missing sources", NoName, NoName)
                /\ pc' = "done"
                /\ node_data' = Put(nd, sink_name, SinkEntry(total_supply))
           ELSE /\ node_data' = Put(nd, sink_name, SinkEntry(total_supply))
                /\ pc' = "solve"
                /\ UNCHANGED solution
    /\ UNCHANGED <<input_data, G_cap, G_nodes, node_balance,
                   total_demand_required, flow_dict>>
    /\ UNCHANGED factory_state

----------------------------------------------------------------------------
(* solve_belt_problem: the transformed max-flow instance *)

\* node splitting, lines 22-39
SplitCap(nd) ==
    [e \in {<<InName(n), OutName(n)>> : n \in DOMAIN nd} |->
        LET n == CHOOSE m \in DOMAIN nd : e = <<InName(m), OutName(m)>>
        IN  Get(nd[n].cap, Inf)]

SplitBalance(nd) ==
    [x \in {InName(n) : n \in DOMAIN nd} \cup {OutName(n) : n \in DOMAIN nd} |->
        LET n == CHOOSE m \in DOMAIN nd : x \in {InName(m), OutName(m)}
        IN  IF x = OutName(n)
            THEN (IF Get(nd[n].supply, 0) > 0 THEN nd[n].supply ELSE 0)
            ELSE (IF Get(nd[n].demand, 0) > 0 THEN 0 - nd[n].demand ELSE 0)]

original_sources(nd) == {n \in DOMAIN nd : Get(nd[n].supply, 0) > 0}

\* the edge loop, lines 42-56: the first edge that raises, 0 if none does
\* a variant of the edge loop that lets hi < lo pass
EdgeRaises_EndpointsOnly(nd, e) == e.from \notin DOMAIN nd \/ e.to \notin DOMAIN nd

EdgeRaises(nd, e) == e.hi < e.lo \/ e.from \notin DOMAIN nd \/ e.to \notin DOMAIN nd

FirstRaising(nd, es) ==
    LET bad == {i \in 1..Len(es) : EdgeRaises(nd, es[i])}
    IN  IF bad = {} THEN 0 ELSE CHOOSE i \in bad : \A j \in bad : i <= j

\* G_transformed.add_edge(u_out, v_in, capacity=hi - lo) on a DiGraph
RECURSIVE AddEdges(_, _)
AddEdges(cap, es) ==
    IF es = <<>> THEN cap
    ELSE LET e == Head(es)
         IN  AddEdges(Put(cap, <<OutName(e.from), InName(e.to)>>, Sub(e.hi, e.lo)),
                      Tail(es))

\* node_balance[u_out] -= lo; node_balance[v_in] += lo
RECURSIVE AddLowerBounds(_, _)
AddLowerBounds(bal, es) ==
    IF es = <<>> THEN bal
    ELSE LET e == Head(es)
             b1 == [bal EXCEPT ![OutName(e.from)] = @ - e.lo]
             b2 == [b1 EXCEPT ![InName(e.to)] = @ + e.lo]
         IN  AddLowerBounds(b2, Tail(es))

\* the S* / T* loop, lines 60-67
StarCap(bal) ==
    [e \in {<<S_STAR, x>> : x \in {y \in DOMAIN bal : bal[y] > 0}}
          \cup {<<x, T_STAR>> : x \in {y \in DOMAIN bal : bal[y] < 0}} |->
        IF e[1] = S_STAR THEN bal[e[2]] ELSE 0 - bal[e[1]]]

Merge(f, g) == [x \in DOMAIN f \cup DOMAIN g |-> IF x \in DOMAIN g THEN g[x] ELSE f[x]]

DemandRequired(bal) ==
    SumOver([x \in DOMAIN bal |-> IF bal[x] < 0 THEN 0 - bal[x] ELSE 0], DOMAIN bal)

NodesOf(cap) == {e[1] : e \in DOMAIN cap} \cup {e[2] : e \in DOMAIN cap}

Transform ==
    /\ pc = "solve"
    /\ LET es == input_data.edges
           k == FirstRaising(node_data, es)
       IN  IF k # 0
           THEN /\ solution' =
                     (IF es[k].hi < es[k].lo
                      THEN ErrorDoc("hi < lo", es[k].from, es[k].to)
                      ELSE ErrorDoc("KeyError", NoName, NoName))
                /\ pc' = "done"
                /\ UNCHANGED <<G_cap, G_nodes, node_balance,
                               total_demand_required, flow_dict>>
           ELSE LET bal == AddLowerBounds(SplitBalance(node_data), es)
                    cap == Merge(AddEdges(SplitCap(node_data), es), StarCap(bal))
                IN  /\ G_cap' = cap
                    /\ G_nodes' = NodesOf(cap)
                    /\ node_balance' = bal
                    /\ total_demand_required' = DemandRequired(bal)
                    /\ flow_dict' = [e \in DOMAIN cap |-> 0]
                    /\ pc' = "maxflow"
                    /\ UNCHANGED solution
    /\ UNCHANGED <<input_data, node_data>>
    /\ UNCHANGED factory_state

----------------------------------------------------------------------------
(* nx.maximum_flow(G_transformed, S_STAR, T_STAR): augmentation of an
   integral flow along residual paths until none is left.  The flow kept on
   a pair of opposite edges is the net flow, as in the library's residual
   network. *)

HasEdge(u, v) == <<u, v>> \in DOMAIN G_cap

ResidualCap(u, v) ==
    (IF HasEdge(u, v) THEN Sub(G_cap[<<u, v>>], flow_dict[<<u, v>>]) ELSE 0)
    + (IF HasEdge(v, u) THEN flow_dict[<<v, u>>] ELSE 0)

RECURSIVE AugmentingPaths(_, _)
AugmentingPaths(u, seen) ==
    IF u = T_STAR THEN {<<u>>}
    ELSE UNION {{<<u>> \o q : q \in AugmentingPaths(v, seen \cup {v})} :
                  v \in {w \in G_nodes \ seen : ResidualCap(u, w) > 0}}

PathEdges(p) == {<<p[i], p[i + 1]>> : i \in 1..(Len(p) - 1)}

\* one more unit along p: cancel flow on the opposite edge first
Pushed(p) ==
    LET pe == PathEdges(p)
    IN  [e \in DOMAIN flow_dict |->
            IF <<e[2], e[1]>> \in pe /\ flow_dict[e] > 0 THEN flow_dict[e] - 1
            ELSE IF e \in pe /\ ~(HasEdge(e[2], e[1]) /\ flow_dict[<<e[2], e[1]>>] > 0)
                 THEN flow_dict[e] + 1
            ELSE flow_dict[e]]

InGraph == S_STAR \in G_nodes /\ T_STAR \in G_nodes

Augment ==
    /\ pc = "maxflow"
    /\ InGraph
    /\ \E p \in AugmentingPaths(S_STAR, {S_STAR}) : flow_dict' = Pushed(p)
    /\ UNCHANGED <<input_data, pc, node_data, G_cap, G_nodes, node_balance,
                   total_demand_required, solution>>
    /\ UNCHANGED factory_state

\* the library raises NetworkXError for a terminal that is no node of the
\* graph; __main__ answers with the error document
NodeNotInGraph ==
    /\ pc = "maxflow"
    /\ ~InGraph
    /\ solution' = ErrorDoc("NetworkXError", NoName, NoName)
    /\ pc' = "done"
    /\ UNCHANGED <<input_data, node_data, G_cap, G_nodes, node_balance,
                   total_demand_required, flow_dict>>
    /\ UNCHANGED factory_state

flow_value ==
    SumOver(flow_dict, {e \in DOMAIN flow_dict : e[1] = S_STAR})

MaxFlowReached == InGraph /\ AugmentingPaths(S_STAR, {S_STAR}) = {}

----------------------------------------------------------------------------
(* _format_success *)

original_edges == input_data.edges

f_prime(e) == flow_dict[<<OutName(e.from), InName(e.to)>>]

final_flows ==
    LET all == [i \in 1..Len(original_edges) |->
                   [from |-> original_edges[i].from, to |-> original_edges[i].to,
                    flow |-> f_prime(original_edges[i]) + original_edges[i].lo]]
    IN  SelectSeq(all, LAMBDA r : r.flow > 0)

SuccessDoc ==
    [status |-> "ok", keys |-> {"status", "max_flow_per_min", "flows"},
     message |-> NoMessage,
     max_flow_per_min |->
        SumOver([n \in DOMAIN node_data |-> Get(node_data[n].supply, 0)],
                original_sources(node_data)),
     flows |-> final_flows, cut_reachable |-> {}, deficit |-> NoDeficit]

FormatSuccess ==
    /\ pc = "maxflow"
    /\ MaxFlowReached
    /\ Abs(flow_value - total_demand_required) = 0
    /\ solution' = SuccessDoc
    /\ pc' = "done"
    /\ UNCHANGED <<input_data, node_data, G_cap, G_nodes, node_balance,
                   total_demand_required, flow_dict>>
    /\ UNCHANGED factory_state

----------------------------------------------------------------------------
(* _build_residual_graph and _format_infeasible *)

\* residual arcs: forward if cap - flow > tol, backward if flow > tol
ResidualArcs ==
    {e \in DOMAIN G_cap : Sub(G_cap[e], flow_dict[e]) > 0}
    \cup {<<e[2], e[1]>> : e \in {d \in DOMAIN G_cap : flow_dict[d] > 0}}

RECURSIVE Reachable(_, _)
Reachable(arcs, seen) ==
    LET more == {a[2] : a \in {b \in arcs : b[1] \in seen}} \ seen
    IN  IF more = {} THEN seen ELSE Reachable(arcs, seen \cup more)

reachable_nodes_transformed == Reachable(ResidualArcs, {S_STAR})

RecoveredName(n) ==
    IF EndsWith(n, SUF_IN) \/ EndsWith(n, SUF_OUT) THEN SplitFirst(n) ELSE n

cut_reachable ==
    {RecoveredName(n) :
        n \in {m \in reachable_nodes_transformed :
                 \/ EndsWith(m, SUF_IN) \/ EndsWith(m, SUF_OUT)
                 \/ (m # S_STAR /\ m # T_STAR)}}

tight_nodes ==
    {n \in DOMAIN node_data :
        /\ node_data[n].cap # Absent
        /\ InName(n) \in reachable_nodes_transformed
        /\ OutName(n) \notin reachable_nodes_transformed
        /\ Abs(flow_dict[<<InName(n), OutName(n)>>] - node_data[n].cap) = 0}

\* a variant that drops the test that v_in lies beyond the cut
TightEdge_NoCutTest(e) ==
    /\ OutName(e.from) \in reachable_nodes_transformed
    /\ Abs(f_prime(e) - Sub(e.hi, e.lo)) = 0

TightEdge(e) ==
    /\ OutName(e.from) \in reachable_nodes_transformed
    /\ InName(e.to) \notin reachable_nodes_transformed
    /\ Abs(f_prime(e) - Sub(e.hi, e.lo)) = 0

tight_edges ==
    LET all == [i \in 1..Len(original_edges) |->
                   [from |-> original_edges[i].from, to |-> original_edges[i].to,
                    idx |-> i]]
        kept == SelectSeq(all, LAMBDA r : TightEdge(original_edges[r.idx]))
    IN  [i \in 1..Len(kept) |-> [from |-> kept[i].from, to |-> kept[i].to]]

InfeasibleDoc ==
    [status |-> "infeasible", keys |-> {"status", "cut_reachable", "deficit"},
     message |-> NoMessage, max_flow_per_min |-> 0, flows |-> <<>>,
     cut_reachable |-> cut_reachable,
     deficit |-> [demand_balance |-> total_demand_required - flow_value,
                  tight_nodes |-> tight_nodes,
                  tight_edges |-> tight_edges]]

\* a variant that answers "infeasible" whatever the max-flow value is
FormatInfeasible_NoDecision ==
    /\ pc = "maxflow"
    /\ MaxFlowReached
    /\ solution' = InfeasibleDoc
    /\ pc' = "done"
    /\ UNCHANGED <<input_data, node_data, G_cap, G_nodes, node_balance,
                   total_demand_required, flow_dict>>
    /\ UNCHANGED factory_state

FormatInfeasible ==
    /\ pc = "maxflow"
    /\ MaxFlowReached
    /\ Abs(flow_value - total_demand_required) # 0
    /\ solution' = InfeasibleDoc
    /\ pc' = "done"
    /\ UNCHANGED <<input_data, node_data, G_cap, G_nodes, node_balance,
                   total_demand_required, flow_dict>>
    /\ UNCHANGED factory_state

----------------------------------------------------------------------------
StartWith(maxEdges) ==
    /\ \E r \in Roles, es \in EdgeLists(1, maxEdges) :
          input_data = [sources |-> r.sources, nodes |-> r.nodes,
                        sink |-> r.sink, edges |-> es]
    /\ pc = "main"
    /\ node_data = <<>>
    /\ G_cap = <<>>
    /\ G_nodes = {}
    /\ node_balance = <<>>
    /\ total_demand_required = 0
    /\ flow_dict = <<>>
    /\ solution = NoSolution
    /\ constants = <<>>
    /\ raw_items_order = <<>>
    /\ lp_solves = <<>>
    /\ opt_vars = <<>>
    /\ recipe_vars = <<>>
    /\ max_rate = 0

Init == StartWith(MaxEdges)
InitCore == StartWith(CoreEdges)

Next ==
    \/ Main
    \/ Transform
    \/ Augment
    \/ NodeNotInGraph
    \/ FormatSuccess
    \/ FormatInfeasible


Spec == Init /\ [][Next]_vars
SpecCore == InitCore /\ [][Next]_vars
----------------------------------------------------------------------------
(* What the claims speak of: the request as written and the response *)

Done == pc = "done"
Ok == Done /\ solution.status = "ok"
Infeasible == Done /\ solution.status = "infeasible"

ReqSources == input_data.sources
ReqNodes == input_data.nodes
ReqSink == input_data.sink
ReqEdges == input_data.edges
Declared == DOMAIN ReqSources \cup DOMAIN ReqNodes \cup {ReqSink}
Intermediate == Declared \ (DOMAIN ReqSources \cup {ReqSink})

\* a request that passes validation
ValidRequest ==
    /\ ReqSink # NoName
    /\ DOMAIN ReqSources # {}
    /\ \A n \in DOMAIN ReqSources : ReqSources[n] > 0
    /\ ReqEdges # <<>>
    /\ \A i \in 1..Len(ReqEdges) :
          /\ ReqEdges[i].from \in Declared
          /\ ReqEdges[i].to \in Declared
          /\ 0 <= ReqEdges[i].lo
          /\ ReqEdges[i].lo <= ReqEdges[i].hi

\* no two request edges join the same pair, and every name has one role
DistinctPairs ==
    \A i, j \in 1..Len(ReqEdges) :
        (ReqEdges[i].from = ReqEdges[j].from /\ ReqEdges[i].to = ReqEdges[j].to) => i = j
DistinctRoles ==
    /\ ReqSink \notin DOMAIN ReqSources \cup DOMAIN ReqNodes
    /\ DOMAIN ReqSources \cap DOMAIN ReqNodes = {}

RECURSIVE SeqSum(_)
SeqSum(q) == IF q = <<>> THEN 0 ELSE Head(q) + SeqSum(Tail(q))

\* sums of the flows a response reports into and out of a node
ReportedIn(n) ==
    SeqSum([i \in 1..Len(solution.flows) |->
               IF solution.flows[i].to = n THEN solution.flows[i].flow ELSE 0])
ReportedOut(n) ==
    SeqSum([i \in 1..Len(solution.flows) |->
               IF solution.flows[i].from = n THEN solution.flows[i].flow ELSE 0])

\* a flow assignment of the request: one value per request edge
AssignedIn(f, n) ==
    SeqSum([i \in 1..Len(ReqEdges) |-> IF ReqEdges[i].to = n THEN f[i] ELSE 0])
AssignedOut(f, n) ==
    SeqSum([i \in 1..Len(ReqEdges) |-> IF ReqEdges[i].from = n THEN f[i] ELSE 0])

FeasibleAssignment(f) ==
    /\ \A i \in 1..Len(ReqEdges) : ReqEdges[i].lo <= f[i] /\ f[i] <= ReqEdges[i].hi
    /\ \A n \in DOMAIN ReqNodes :
          ReqNodes[n] # Absent => AssignedIn(f, n) <= ReqNodes[n]
    /\ \A n \in Intermediate : AssignedIn(f, n) = AssignedOut(f, n)
    /\ \A n \in DOMAIN ReqSources :
          AssignedOut(f, n) - AssignedIn(f, n) = ReqSources[n]
    /\ AssignedIn(f, ReqSink) - AssignedOut(f, ReqSink) = TotalSupply(ReqSources)

RequestFeasible ==
    \E f \in [1..Len(ReqEdges) -> Amounts] : FeasibleAssignment(f)

(* C1: for every valid request the answer is "ok" exactly when a flow
   assignment exists that respects the bounds, the node capacities,
   conservation at the intermediate nodes and delivers every supply to the
   sink, and "infeasible" in every other case.  Stated for requests whose
   edges join distinct pairs and whose names have one role each. *)
C1_OkIffFeasible ==
    (Done /\ ValidRequest /\ DistinctRoles /\ DistinctPairs) =>
        /\ solution.status \in {"ok", "infeasible"}
        /\ (solution.status = "ok") <=> RequestFeasible

\* the request edges a response reports, in order: those with a flow > tol
ReportedIdx ==
    SelectSeq([i \in 1..Len(ReqEdges) |-> i],
              LAMBDA i : f_prime(ReqEdges[i]) + ReqEdges[i].lo > 0)

(* C2: in an "ok" response every entry of flows lies within the bounds
   (lo, hi) of the request edge it reports. *)
C2_FlowsWithinBounds ==
    Ok =>
        /\ Len(solution.flows) = Len(ReportedIdx)
        /\ \A k \in 1..Len(solution.flows) :
              LET e == ReqEdges[ReportedIdx[k]]
              IN  /\ solution.flows[k].from = e.from
                  /\ solution.flows[k].to = e.to
                  /\ e.lo <= solution.flows[k].flow
                  /\ solution.flows[k].flow <= e.hi

(* C3: in an "ok" response the reported flows into every node that is
   neither a source nor the sink sum to the reported flows out of it. *)
C3_Conservation ==
    Ok => \A n \in Intermediate : ReportedIn(n) = ReportedOut(n)

(* C4: in an "ok" response every source has reported outflow equal to its
   supply and reported inflow 0, also when an edge leads into a source.
   Stated for requests whose edges join distinct pairs and whose names have
   one role each. *)
C4_SourceBalance ==
    (Ok /\ DistinctPairs /\ DistinctRoles) =>
        \A n \in DOMAIN ReqSources :
            ReportedOut(n) = ReqSources[n] /\ ReportedIn(n) = 0

(* C5: in an "ok" response the sink has reported inflow equal to the sum of
   the supplies and reported outflow 0, also when an edge leaves the sink.
   Stated for requests whose edges join distinct pairs and whose names have
   one role each. *)
C5_SinkBalance ==
    (Ok /\ DistinctPairs /\ DistinctRoles) =>
        /\ ReportedIn(ReqSink) = TotalSupply(ReqSources)
        /\ ReportedOut(ReqSink) = 0

(* C6: in an "ok" response the reported flows into every node that the
   request gives a capacity sum to at most that capacity, whatever other
   role the node has.  Stated for requests whose edges join distinct pairs. *)
C6_NodeCapacity ==
    (Ok /\ DistinctPairs) =>
        \A n \in DOMAIN ReqNodes :
            ReqNodes[n] # Absent => ReportedIn(n) <= ReqNodes[n]

\* the request edges that join u to v
EdgesBetween(u, v) ==
    {i \in 1..Len(ReqEdges) : ReqEdges[i].from = u /\ ReqEdges[i].to = v}
OfferedCapacity(u, v) ==
    SumOver([i \in 1..Len(ReqEdges) |-> Sub(ReqEdges[i].hi, ReqEdges[i].lo)],
            EdgesBetween(u, v))

(* C7: edges with the same (from, to) are separate edges: the transformed
   instance offers the capacity hi - lo of each of them, and an "ok"
   response reports each within its own bounds with conservation at the
   intermediate endpoints.  Stated for requests whose names have one role
   each. *)
C7_ParallelEdgesDistinct ==
    /\ (pc = "maxflow" /\ DistinctRoles) =>
          \A u, v \in Declared :
              EdgesBetween(u, v) # {} =>
                  G_cap[<<OutName(u), InName(v)>>] = OfferedCapacity(u, v)
    /\ (Ok /\ DistinctRoles) =>
          /\ \A i \in 1..Len(ReqEdges) :
                f_prime(ReqEdges[i]) + ReqEdges[i].lo <= ReqEdges[i].hi
          /\ \A n \in Intermediate : ReportedIn(n) = ReportedOut(n)

\* the request's names with a copy reachable from S* in the residual graph
NamesReachable ==
    {n \in Declared :
        \/ InName(n) \in reachable_nodes_transformed
        \/ OutName(n) \in reachable_nodes_transformed}

(* C8: in an "infeasible" response cut_reachable holds exactly the request's
   node names, verbatim, that have a copy reachable from S* in the residual
   graph, also for names that contain "_". *)
C8_CutReachableNames ==
    Infeasible => solution.cut_reachable = NamesReachable

\* The source side of the cut, from the residual rule: a forward arc where
\* capacity - flow > tol, a backward arc where flow > tol.
RECURSIVE Closure(_)
Closure(S) ==
    LET step == {e[2] : e \in {d \in DOMAIN G_cap :
                                d[1] \in S /\ G_cap[d] - flow_dict[d] > 0}}
                \cup {e[1] : e \in {d \in DOMAIN G_cap :
                                      d[2] \in S /\ flow_dict[d] > 0}}
    IN  IF step \subseteq S THEN S ELSE Closure(S \cup step)
SourceSide == Closure({S_STAR})

CrossingSaturated(i) ==
    /\ OutName(ReqEdges[i].from) \in SourceSide
    /\ InName(ReqEdges[i].to) \notin SourceSide
    /\ flow_dict[<<OutName(ReqEdges[i].from), InName(ReqEdges[i].to)>>]
         = ReqEdges[i].hi - ReqEdges[i].lo

ExpectedTightEdges ==
    LET idx == SelectSeq([i \in 1..Len(ReqEdges) |-> i], CrossingSaturated)
    IN  [k \in 1..Len(idx) |->
            [from |-> ReqEdges[idx[k]].from, to |-> ReqEdges[idx[k]].to]]

ExpectedTightNodes ==
    {n \in DOMAIN ReqNodes :
        /\ ReqNodes[n] # Absent
        /\ InName(n) \in SourceSide
        /\ OutName(n) \notin SourceSide
        /\ flow_dict[<<InName(n), OutName(n)>>] = ReqNodes[n]}

(* C9: in an "infeasible" response tight_edges lists exactly the request
   edges (u -> v) with u_out reachable from S* in the residual graph, v_in
   not reachable and transformed flow hi - lo, and tight_nodes exactly the
   capped nodes N with N_in reachable, N_out not reachable and split-edge
   flow equal to the cap. *)
C9_TightWitness ==
    Infeasible =>
        /\ solution.deficit.tight_edges = ExpectedTightEdges
        /\ solution.deficit.tight_nodes = ExpectedTightNodes

\* an infeasible answer with a tight node, a tight edge and an edge left out
C9_Witness ==
    /\ Infeasible
    /\ solution.deficit.tight_nodes # {}
    /\ Len(solution.deficit.tight_edges) >= 1
    /\ Len(solution.deficit.tight_edges) < Len(ReqEdges)

IntoSinkHi ==
    SeqSum([i \in 1..Len(ReqEdges) |->
               IF ReqEdges[i].to = ReqSink THEN ReqEdges[i].hi ELSE 0])

(* C10: whenever the total supply exceeds the sum of the upper bounds hi of
   the edges entering the sink, the response is "infeasible", carries a
   deficit object and a non-empty cut_reachable. *)
C10_SupplyExceedsSinkCapacity ==
    (Done /\ ValidRequest /\ TotalSupply(ReqSources) > IntoSinkHi) =>
        /\ solution.status = "infeasible"
        /\ "deficit" \in solution.keys
        /\ solution.cut_reachable # {}

----------------------------------------------------------------------------
\* R: the sum of the capacities of the edges into T*; the max-flow value as
\* the flow that arrives at T*
CapacityIntoTStar ==
    SumOver(G_cap, {e \in DOMAIN G_cap : e[2] = T_STAR})

FlowIntoTStar ==
    SumOver(flow_dict, {e \in DOMAIN flow_dict : e[2] = T_STAR})

\* C11: in every "infeasible" response deficit.demand_balance equals R minus
\* the computed max-flow value, R being the sum of the capacities of the
\* edges into T*, and it is strictly positive: no "infeasible" response is
\* produced with max-flow >= R.
C11_DemandBalance ==
    Infeasible =>
        /\ solution.deficit.demand_balance = CapacityIntoTStar - FlowIntoTStar
        /\ solution.deficit.demand_balance > 0
        /\ FlowIntoTStar < CapacityIntoTStar

\* an infeasible answer where part of the demand was routed
C11_Witness ==
    /\ Infeasible
    /\ FlowIntoTStar > 0
    /\ solution.deficit.demand_balance > 0

\* the three rejected shapes of a request
NoSinkName == ReqSink = NoName
EmptyEdges == ReqEdges = <<>>
HiBelowLo(i) == ReqEdges[i].hi < ReqEdges[i].lo
SomeHiBelowLo == \E i \in 1..Len(ReqEdges) : HiBelowLo(i)

\* the first edge with hi < lo is reached by the edge loop: the request
\* names a sink and a source, and every edge up to it joins declared names
ReachesHiBelowLo(i) ==
    /\ HiBelowLo(i)
    /\ ~NoSinkName
    /\ DOMAIN ReqSources # {}
    /\ \A j \in 1..(i - 1) : ~HiBelowLo(j)
    /\ \A j \in 1..(i - 1) : ReqEdges[j].from \in Declared /\ ReqEdges[j].to \in Declared

C13_ValidNeverError ==
    (Done /\ ValidRequest /\ DistinctRoles) =>
        solution.status \in {"ok", "infeasible"}

----------------------------------------------------------------------------
(* Factory: exact rational arithmetic (fractions.Fraction) *)

RECURSIVE GCD(_, _)
GCD(a, b) == IF b = 0 THEN a ELSE GCD(b, a % b)

\* Fraction(n, d): lowest terms, positive denominator
Fraction(n, d) ==
    LET s == IF d < 0 THEN -1 ELSE 1
        g == GCD(Abs(n), Abs(d))
    IN  <<(s * n) \div g, (s * d) \div g>>

\* Fraction(str(v)): the numbers of a request are decimals, written in the
\* request as whole multiples of 1 / input_data.denominator
FractionOf(v) == Fraction(v, input_data.denominator)

zero == <<0, 1>>
one == <<1, 1>>
sixty == <<60, 1>>

\* the operations cancel common factors before they multiply, so that the
\* products stay small
QNeg(x) == <<-x[1], x[2]>>
QAdd(x, y) ==
    LET g == GCD(x[2], y[2])
    IN  Fraction(x[1] * (y[2] \div g) + y[1] * (x[2] \div g), (x[2] \div g) * y[2])
QSub(x, y) == QAdd(x, QNeg(y))
QMul(x, y) ==
    LET g1 == GCD(Abs(x[1]), y[2])
        g2 == GCD(Abs(y[1]), x[2])
    IN  Fraction((x[1] \div g1) * (y[1] \div g2), (x[2] \div g2) * (y[2] \div g1))
QDiv(x, y) ==
    IF y[1] = 0 THEN Fraction(x[1] * y[2], 0)
    ELSE QMul(x, Fraction(y[2], y[1]))
QLe(x, y) ==
    LET g == GCD(x[2], y[2])
    IN  x[1] * (y[2] \div g) <= y[1] * (x[2] \div g)
QLt(x, y) == ~QLe(y, x)

\* sum(f[k] for k in S), lpSum
RECURSIVE QSum(_, _)
QSum(f, S) ==
    IF S = {} THEN zero
    ELSE LET k == CHOOSE x \in S : TRUE
         IN  QAdd(f[k], QSum(f, S \ {k}))

\* sorted(): the names of the explored requests in ascending order
NameOrder ==
    <<"asm", "assembler_1", "chem", "chemical", "copper_ore", "copper_plate",
      "craft", "gear", "green_circuit", "iron_ore", "iron_plate", "lab", "oil",
      "ore", "plate", "smelt", "wire">>

Sorted(S) == SelectSeq(NameOrder, LAMBDA n : n \in S)

Range(q) == {q[i] : i \in 1..Len(q)}

----------------------------------------------------------------------------
(* Factory: the explored requests *)

MaxQty == 2
MaxCap == 2
MaxRate == 2

NoItem == ""

\* remove key k from mapping f
Without(f, k) == [x \in DOMAIN f \ {k} |-> f[x]]

\* a key that a module entry does not hold is Absent
Module(speed, prod) == [speed |-> speed, prod |-> prod]

\* The regular requests.  Two recipes, "smelt" on chem and "craft" on asm,
\* either a chain (ore -> plate -> gear) or two ways from ore to gear; ore
\* is the capped raw item, asm the capped machine, gear the target.
RegularRequest(chain, a1, a2, rc, mc, rate) ==
    [machines |-> ("asm" :> 1) @@ ("chem" :> 1),
     recipes |->
        ("smelt" :> [machine |-> "chem", time_s |-> 60,
                     in |-> ("ore" :> a1),
                     out |-> IF chain THEN ("plate" :> 1) ELSE ("gear" :> 1)])
        @@ ("craft" :> [machine |-> "asm", time_s |-> 60,
                        in |-> IF chain THEN ("plate" :> a2) ELSE ("ore" :> a2),
                        out |-> ("gear" :> 1)]),
     recipe_order |-> <<"smelt", "craft">>,
     modules |-> <<>>,
     limits |-> [raw_supply_per_min |-> ("ore" :> rc),
                 max_machines |-> ("asm" :> mc)],
     target |-> [item |-> "gear", rate_per_min |-> rate],
     denominator |-> 1]

DropRecipe(q, r) ==
    [q EXCEPT !.recipes = Without(@, r),
              !.recipe_order = SelectSeq(@, LAMBDA x : x # r)]

\* the ways in which an explored request departs from a regular one
Departures ==
    {"none", "drop smelt", "drop craft", "smelt on lab", "smelt time 0",
     "smelt time 30", "craft takes oil", "chem speed 0", "asm prod",
     "chem speed", "no target item", "target wire", "target plate",
     "no target rate", "ore uncapped", "oil capped", "plate capped",
     "asm uncapped", "chem capped", "oil capped at 0", "ore cap negative"}

\* the request q with one change made to it
Depart(q, change) ==
    LET has(r) == r \in DOMAIN q.recipes
    IN  CASE change = "drop smelt" /\ has("smelt") /\ has("craft") ->
                DropRecipe(q, "smelt")
          [] change = "drop craft" /\ has("smelt") /\ has("craft") ->
                DropRecipe(q, "craft")
          [] change = "smelt on lab" /\ has("smelt") ->
                [q EXCEPT !.recipes["smelt"].machine = "lab"]
          [] change = "smelt time 0" /\ has("smelt") ->
                [q EXCEPT !.recipes["smelt"].time_s = 0]
          [] change = "smelt time 30" /\ has("smelt") ->
                [q EXCEPT !.recipes["smelt"].time_s = 30]
          [] change = "craft takes oil" /\ has("craft") ->
                [q EXCEPT !.recipes["craft"].in = ("oil" :> 1) @@ @]
          [] change = "chem speed 0" ->
                [q EXCEPT !.machines = ("chem" :> 0) @@ @]
          [] change = "asm prod" ->
                [q EXCEPT !.modules = ("asm" :> Module(Absent, 1)) @@ @]
          [] change = "chem speed" ->
                [q EXCEPT !.modules = ("chem" :> Module(1, Absent)) @@ @]
          [] change = "no target item" -> [q EXCEPT !.target.item = NoItem]
          [] change = "target wire" -> [q EXCEPT !.target.item = "wire"]
          [] change = "target plate" -> [q EXCEPT !.target.item = "plate"]
          [] change = "no target rate" ->
                [q EXCEPT !.target.rate_per_min = Absent]
          [] change = "ore uncapped" ->
                [q EXCEPT !.limits.raw_supply_per_min = Without(@, "ore")]
          [] change = "oil capped" ->
                [q EXCEPT !.limits.raw_supply_per_min = ("oil" :> 1) @@ @]
          [] change = "oil capped at 0" ->
                [q EXCEPT !.limits.raw_supply_per_min = ("oil" :> 0) @@ @]
          [] change = "ore cap negative" ->
                [q EXCEPT !.limits.raw_supply_per_min = ("ore" :> -1) @@ @]
          [] change = "plate capped" ->
                [q EXCEPT !.limits.raw_supply_per_min = ("plate" :> MaxCap) @@ @]
          [] change = "asm uncapped" ->
                [q EXCEPT !.limits.max_machines = Without(@, "asm")]
          [] change = "chem capped" ->
                [q EXCEPT !.limits.max_machines = ("chem" :> 1) @@ @]
          [] OTHER -> q

\* The green_circuit sample (tests/test_factory.py, SAMPLE_INPUT) and its
\* neighbours.  Its numbers have up to two decimal places and are held in
\* twentieths.
SampleDenominator == 20

Decimal(whole, twentieths) == whole * SampleDenominator + twentieths

\* the target rates are the multiples of SampleRateStep up to the sample's
\* 1800
SampleRateStep == 600
SampleRateSteps == 3

\* the sample with target rate `rate`, raw cap `iron_cap` on iron_ore, and
\* the prod entries of the two machines' modules (Absent for none)
SampleRequest(rate, iron_cap, asm_prod, chem_prod) ==
    [machines |-> ("assembler_1" :> Decimal(30, 0)) @@ ("chemical" :> Decimal(60, 0)),
     recipes |->
        ("iron_plate" :> [machine |-> "chemical", time_s |-> Decimal(3, 4),
                          in |-> ("iron_ore" :> Decimal(1, 0)),
                          out |-> ("iron_plate" :> Decimal(1, 0))])
        @@ ("copper_plate" :> [machine |-> "chemical", time_s |-> Decimal(3, 4),
                               in |-> ("copper_ore" :> Decimal(1, 0)),
                               out |-> ("copper_plate" :> Decimal(1, 0))])
        @@ ("green_circuit" :> [machine |-> "assembler_1", time_s |-> Decimal(0, 10),
                                in |-> ("iron_plate" :> Decimal(1, 0))
                                       @@ ("copper_plate" :> Decimal(3, 0)),
                                out |-> ("green_circuit" :> Decimal(1, 0))]),
     recipe_order |-> <<"iron_plate", "copper_plate", "green_circuit">>,
     modules |-> ("assembler_1" :> Module(Decimal(0, 3), asm_prod))
                 @@ ("chemical" :> Module(Decimal(0, 2), chem_prod)),
     limits |-> [raw_supply_per_min |-> ("iron_ore" :> iron_cap)
                                        @@ ("copper_ore" :> Decimal(5000, 0)),
                 max_machines |-> ("assembler_1" :> Decimal(300, 0))
                                  @@ ("chemical" :> Decimal(300, 0))],
     target |-> [item |-> "green_circuit", rate_per_min |-> rate],
     denominator |-> SampleDenominator]

\* SAMPLE_INPUT itself: prod 0.1 on assembler_1 and 0.2 on chemical
GreenCircuitSample ==
    SampleRequest(Decimal(1800, 0), Decimal(5000, 0), Decimal(0, 2), Decimal(0, 4))

----------------------------------------------------------------------------
(* Factory: the response documents *)

NoFactoryMessage == [kind |-> "none", recipe |-> NoItem]

NoFactorySolution ==
    [status |-> "none", keys |-> {}, message |-> NoFactoryMessage,
     per_recipe_crafts_per_min |-> <<>>, per_machine_counts |-> <<>>,
     raw_consumption_per_min |-> <<>>,
     max_feasible_target_per_min |-> zero, bottleneck_hint |-> <<>>]

FactoryErrorDoc(kind, r) ==
    [NoFactorySolution EXCEPT
        !.status = "error", !.keys = {"status", "message"},
        !.message = [kind |-> kind, recipe |-> r]]

----------------------------------------------------------------------------
(* Factory __main__ *)

machines == input_data.machines
recipes == input_data.recipes
modules == input_data.modules
limits == input_data.limits
target == input_data.target
raw_caps == limits.raw_supply_per_min
machine_caps == limits.max_machines
target_item == target.item
target_rate == target.rate_per_min

FactoryMain ==
    /\ pc = "factory_main"
    /\ IF target_item = NoItem \/ target_rate = Absent
       THEN /\ solution' = FactoryErrorDoc("missing target", NoItem)
            /\ pc' = "done"
       ELSE /\ pc' = "preprocess"
            /\ UNCHANGED solution
    /\ UNCHANGED <<input_data, belts_state, factory_state>>

----------------------------------------------------------------------------
(* _preprocess_constants *)

\* module.get("speed", 0), module.get("prod", 0) with modules.get(m_name, {})
ModuleOf(m_name) ==
    IF m_name \in DOMAIN modules THEN modules[m_name] ELSE Module(Absent, Absent)

speed_mod(r_name) == FractionOf(Get(ModuleOf(recipes[r_name].machine).speed, 0))
prod_mod(r_name) == FractionOf(Get(ModuleOf(recipes[r_name].machine).prod, 0))
base_speed(r_name) == FractionOf(machines[recipes[r_name].machine])
time_s(r_name) == FractionOf(recipes[r_name].time_s)

eff_crafts_per_min(r_name) ==
    QDiv(QMul(QMul(base_speed(r_name), QAdd(one, speed_mod(r_name))), sixty),
         time_s(r_name))

\* a variant of the loop body that does not test time_s
RecipeRaises_NoTimeTest(r_name) ==
    IF recipes[r_name].machine \notin DOMAIN machines THEN "unknown machine"
    ELSE "none"

\* what the loop body raises for one recipe, "none" if nothing: the unknown
\* machine, the time, then Fraction(1, 10**-30), a TypeError for the float
RecipeRaises(r_name) ==
    IF recipes[r_name].machine \notin DOMAIN machines THEN "unknown machine"
    ELSE IF ~QLt(zero, time_s(r_name)) THEN "invalid time_s"
    ELSE IF ~QLt(zero, eff_crafts_per_min(r_name)) THEN "TypeError"
    ELSE "none"

\* the first recipe, in document order, at which the loop raises; 0 if none
FirstRaisingRecipe ==
    LET order == input_data.recipe_order
        bad == {i \in 1..Len(order) : RecipeRaises(order[i]) # "none"}
    IN  IF bad = {} THEN 0 ELSE CHOOSE i \in bad : \A j \in bad : i <= j

machine_cost(r_name) == QDiv(one, eff_crafts_per_min(r_name))

\* a variant in which productivity does not reach the outputs
eff_outputs_NoProd(r_name) ==
    [item \in DOMAIN recipes[r_name].out |-> FractionOf(recipes[r_name].out[item])]

eff_outputs(r_name) ==
    [item \in DOMAIN recipes[r_name].out |->
        QMul(FractionOf(recipes[r_name].out[item]), QAdd(one, prod_mod(r_name)))]

frac_inputs(r_name) ==
    [item \in DOMAIN recipes[r_name].in |-> FractionOf(recipes[r_name].in[item])]

all_produced_items == UNION {DOMAIN recipes[r].out : r \in DOMAIN recipes}

all_items ==
    UNION {DOMAIN recipes[r].out \cup DOMAIN recipes[r].in : r \in DOMAIN recipes}

\* lines 137-142: the produced items that are neither raw nor the target,
\* and then the target again if some recipe produces it
intermediate_items ==
    ((all_produced_items \ DOMAIN raw_caps) \ {target_item})
    \cup (IF target_item \in all_produced_items THEN {target_item} ELSE {})

PreprocessConstants ==
    [eff_outputs |-> [r \in DOMAIN recipes |-> eff_outputs(r)],
     frac_inputs |-> [r \in DOMAIN recipes |-> frac_inputs(r)],
     machine_costs |-> [r \in DOMAIN recipes |-> machine_cost(r)],
     recipe_machines |-> [r \in DOMAIN recipes |-> recipes[r].machine],
     all_items |-> Sorted(all_items),
     recipe_names |-> Sorted(DOMAIN recipes),
     machine_types |-> Sorted(DOMAIN machine_caps),
     raw_items |-> DOMAIN raw_caps,
     target_item |-> target_item,
     machine_caps |-> machine_caps,
     raw_caps |-> raw_caps,
     intermediate_items |-> intermediate_items]

\* the orders in which a set can iterate
Orders(S) == {q \in [1..Cardinality(S) -> S] : Range(q) = S}

Preprocess ==
    /\ pc = "preprocess"
    /\ LET k == FirstRaisingRecipe
       IN  IF k # 0
           THEN /\ solution' =
                     FactoryErrorDoc(RecipeRaises(input_data.recipe_order[k]),
                                     input_data.recipe_order[k])
                /\ pc' = "done"
                /\ UNCHANGED <<constants, raw_items_order>>
           ELSE /\ constants' = PreprocessConstants
                /\ raw_items_order' \in Orders(DOMAIN raw_caps)
                /\ pc' = "optimize"
                /\ UNCHANGED solution
    /\ UNCHANGED <<input_data, belts_state, lp_solves, opt_vars, recipe_vars,
                   max_rate>>

----------------------------------------------------------------------------
(* _build_model: the LP of a mode, "optimize" or "maximize_rate".  A row is
   sum(coef[r] * recipe_vars[r]) <sense> rhs, or <sense> target_rate_var
   when to_var holds. *)

\* float(eff_outputs[r].get(item, 0)) - float(frac_inputs[r].get(item, 0))
NetCoefficient(r, item) ==
    QSub(IF item \in DOMAIN constants.eff_outputs[r]
         THEN constants.eff_outputs[r][item] ELSE zero,
         IF item \in DOMAIN constants.frac_inputs[r]
         THEN constants.frac_inputs[r][item] ELSE zero)

balance_expr(item) ==
    [r \in Range(constants.recipe_names) |-> NetCoefficient(r, item)]

usage_expr(m_type) ==
    [r \in Range(constants.recipe_names) |->
        IF constants.recipe_machines[r] = m_type
        THEN constants.machine_costs[r] ELSE zero]

LpRow(name, item, coef, sense, rhs, to_var) ==
    [name |-> name, item |-> item, coef |-> coef, sense |-> sense,
     rhs |-> rhs, to_var |-> to_var]

\* a variant that adds no row for the intermediate items
ItemRows_NoIntermediate(item, mode) ==
    IF item = constants.target_item
    THEN IF mode = "optimize"
         THEN <<LpRow("C_Target", item, balance_expr(item), "==",
                      FractionOf(target_rate), FALSE)>>
         ELSE <<LpRow("C_Target", item, balance_expr(item), "==", zero, TRUE)>>
    ELSE IF item \in constants.raw_items /\ item \notin constants.intermediate_items
    THEN <<LpRow("C_Raw_Net", item, balance_expr(item), "<=", zero, FALSE),
           LpRow("C_Raw_Cap", item, balance_expr(item), ">=",
                 QNeg(FractionOf(constants.raw_caps[item])), FALSE)>>
    ELSE <<>>

\* the rows added for one item, lines 179-208
ItemRows(item, mode) ==
    IF item = constants.target_item
    THEN IF mode = "optimize"
         THEN <<LpRow("C_Target", item, balance_expr(item), "==",
                      FractionOf(target_rate), FALSE)>>
         ELSE <<LpRow("C_Target", item, balance_expr(item), "==", zero, TRUE)>>
    ELSE IF item \in constants.intermediate_items
    THEN <<LpRow("C_Intermediate", item, balance_expr(item), "==", zero, FALSE)>>
    ELSE IF item \in constants.raw_items
    THEN <<LpRow("C_Raw_Net", item, balance_expr(item), "<=", zero, FALSE)>>
         \o (IF item \in DOMAIN constants.raw_caps
             THEN <<LpRow("C_Raw_Cap", item, balance_expr(item), ">=",
                          QNeg(FractionOf(constants.raw_caps[item])), FALSE)>>
             ELSE <<>>)
    ELSE <<>>

\* a variant that adds no machine cap row
MachineRows_None(m_type) == <<>>

\* the row added for one machine type, lines 210-222
MachineRows(m_type) ==
    IF m_type \in DOMAIN constants.machine_caps
    THEN <<LpRow("C_Machine_Cap", m_type, usage_expr(m_type), "<=",
                 FractionOf(constants.machine_caps[m_type]), FALSE)>>
    ELSE <<>>

RECURSIVE Flatten(_)
Flatten(qs) == IF qs = <<>> THEN <<>> ELSE Head(qs) \o Flatten(Tail(qs))

BuildModel(mode) ==
    [mode |-> mode,
     variables |-> Range(constants.recipe_names),
     objective |-> [r \in Range(constants.recipe_names) |->
                       IF mode = "optimize" THEN constants.machine_costs[r]
                       ELSE zero],
     rows |-> Flatten([i \in 1..Len(constants.all_items) |->
                          ItemRows(constants.all_items[i], mode)])
              \o Flatten([i \in 1..Len(constants.machine_types) |->
                             MachineRows(constants.machine_types[i])])]

----------------------------------------------------------------------------
(* prob.solve(solver): the LP solved exactly.  The feasible set lies in the
   non-negative orthant, so it has a vertex when it is not empty, and a
   bounded objective is attained at a vertex; the solver returns one of the
   optimal vertices.  A vertex is the point where as many boundaries meet as
   there are coordinates; a single recipe variable is paired with a second
   coordinate held at 0.  In the max-rate LP, target_rate_var equals the
   target row's balance, so the objective is that balance and
   target_rate_var >= 0 bounds it below; with no target row target_rate_var
   is free and the LP is unbounded. *)

Pad == "_"

Coordinates(lp) ==
    IF Cardinality(lp.variables) = 1 THEN lp.variables \cup {Pad} ELSE lp.variables

CoefAt(coef, w) == IF w \in DOMAIN coef THEN coef[w] ELSE zero

Dot(coef, p) == QSum([w \in DOMAIN p |-> QMul(CoefAt(coef, w), p[w])], DOMAIN p)

Unit(lp, w) == [x \in Coordinates(lp) |-> IF x = w THEN one ELSE zero]

TargetRows(lp) == {i \in 1..Len(lp.rows) : lp.rows[i].to_var}

\* the coordinates in a fixed order
CoordinateOrder(lp) ==
    Sorted(lp.variables) \o (IF Pad \in Coordinates(lp) THEN <<Pad>> ELSE <<>>)

\* the boundaries coef . p = rhs of the feasible set: the axes, then the rows
BoundaryLines(lp) ==
    LET axes == CoordinateOrder(lp)
    IN  [i \in 1..Len(axes) |-> [coef |-> Unit(lp, axes[i]), rhs |-> zero]]
        \o [i \in 1..Len(lp.rows) |-> [coef |-> lp.rows[i].coef, rhs |-> lp.rows[i].rhs]]

\* the column of the right-hand sides
Rhs == "="

Entry(l, w) == IF w = Rhs THEN l.rhs ELSE CoefAt(l.coef, w)

\* q without its j-th element
Drop(q, j) == SubSeq(q, 1, j - 1) \o SubSeq(q, j + 1, Len(q))

\* the determinant of the boundaries ls over the columns cols, expanded along
\* the first boundary
RECURSIVE Determinant(_, _)
Determinant(ls, cols) ==
    IF ls = <<>> THEN one
    ELSE LET term(j) ==
                 LET e == Entry(Head(ls), cols[j])
                     c == IF e = zero THEN zero
                          ELSE QMul(e, Determinant(Tail(ls), Drop(cols, j)))
                 IN  IF j % 2 = 1 THEN c ELSE QNeg(c)
         IN  QSum([j \in 1..Len(cols) |-> term(j)], 1..Len(cols))

\* the point where the boundaries ls meet (Cramer's rule)
Intersection(ls, cols) ==
    LET det == Determinant(ls, cols)
    IN  [w \in Range(cols) |->
            LET k == CHOOSE j \in 1..Len(cols) : cols[j] = w
            IN  QDiv(Determinant(ls, [cols EXCEPT ![k] = Rhs]), det)]

\* the boundaries of L with an index in S, in the order of L
Picked(L, S) ==
    LET idx == SelectSeq([i \in 1..Len(L) |-> i], LAMBDA i : i \in S)
    IN  [k \in 1..Len(idx) |-> L[idx[k]]]

\* the sets of n of the indices from..to
RECURSIVE PicksOf(_, _, _)
PicksOf(from, to, n) ==
    IF n = 0 THEN {{}}
    ELSE IF to - from + 1 < n THEN {}
    ELSE {S \cup {from} : S \in PicksOf(from + 1, to, n - 1)}
         \cup PicksOf(from + 1, to, n)

\* the sets of n indices of L
Picks(L, n) == PicksOf(1, Len(L), n)

Holds(x, sense, y) ==
    CASE sense = "==" -> x = y
      [] sense = "<=" -> QLe(x, y)
      [] sense = ">=" -> QLe(y, x)

RowHolds(row, p) ==
    IF row.to_var THEN QLe(zero, Dot(row.coef, p))
    ELSE Holds(Dot(row.coef, p), row.sense, row.rhs)

LpFeasible(lp, p) ==
    /\ \A w \in DOMAIN p : QLe(zero, p[w])
    /\ Pad \in DOMAIN p => p[Pad] = zero
    /\ \A i \in 1..Len(lp.rows) : RowHolds(lp.rows[i], p)

Vertices(lp) ==
    LET cols == CoordinateOrder(lp)
        L == BoundaryLines(lp)
        crossing == {S \in Picks(L, Len(cols)) :
                       Determinant(Picked(L, S), cols) # zero}
        met == {Intersection(Picked(L, S), cols) : S \in crossing}
    IN  {p \in met : LpFeasible(lp, p)}

\* what the objective is worth at p
ObjectiveAt(lp, p) ==
    IF lp.mode = "optimize" THEN Dot(lp.objective, p)
    ELSE LET i == CHOOSE j \in TargetRows(lp) : TRUE
         IN  Dot(lp.rows[i].coef, p)

\* a direction along which the feasible set never ends
Recedes(lp, d) ==
    /\ \A w \in DOMAIN d : QLe(zero, d[w])
    /\ Pad \in DOMAIN d => d[Pad] = zero
    /\ \A i \in 1..Len(lp.rows) :
          IF lp.rows[i].to_var THEN QLe(zero, Dot(lp.rows[i].coef, d))
          ELSE Holds(Dot(lp.rows[i].coef, d), lp.rows[i].sense, zero)

\* the directions of the edges, both ways: an edge is where one boundary
\* fewer than there are coordinates meet, and its direction is their
\* generalized cross product
Directions(lp) ==
    LET cols == CoordinateOrder(lp)
        L == BoundaryLines(lp)
        along(ls) ==
            [w \in Range(cols) |->
                LET k == CHOOSE j \in 1..Len(cols) : cols[j] = w
                    c == Determinant(ls, Drop(cols, k))
                IN  IF k % 2 = 1 THEN c ELSE QNeg(c)]
        back(d) == [w \in DOMAIN d |-> QNeg(d[w])]
    IN  UNION {{along(Picked(L, S)), back(along(Picked(L, S)))} :
               S \in Picks(L, Len(cols) - 1)}

\* the objective grows without end over the feasible set
LpUnbounded(lp) ==
    /\ lp.mode # "optimize"
    /\ \/ TargetRows(lp) = {}
       \/ \E d \in Directions(lp) :
             Recedes(lp, d) /\ QLt(zero, ObjectiveAt(lp, d))

\* LpStatus[prob.status], V being the vertices of the feasible set
LpStatus(lp, V) ==
    IF V = {} THEN "Infeasible"
    ELSE IF LpUnbounded(lp) THEN "Unbounded"
    ELSE "Optimal"

Better(lp, x, y) == IF lp.mode = "optimize" THEN QLe(x, y) ELSE QLe(y, x)

\* a variant of the solver that is content with any feasible vertex
OptimalVertices_AnyFeasible(lp, V) == V

OptimalVertices(lp, V) ==
    LET worth == [p \in V |-> ObjectiveAt(lp, p)]
    IN  {p \in V : \A q \in V : Better(lp, worth[p], worth[q])}

\* varValue of the recipe variables at the vertex p
VarValues(lp, p) == [r \in lp.variables |-> p[r]]

----------------------------------------------------------------------------
(* solve_factory_steady_state: the optimize LP *)

\* a variant that goes on to the max-rate LP whatever the status
SolveOptimize_NoStatusTest ==
    /\ pc = "optimize"
    /\ LET lp == BuildModel("optimize")
           V == Vertices(lp)
       IN  lp_solves' = Append(lp_solves, <<"optimize", LpStatus(lp, V)>>)
    /\ pc' = "max_rate"
    /\ UNCHANGED <<input_data, solution, belts_state, constants,
                   raw_items_order, opt_vars, recipe_vars, max_rate>>

SolveOptimize ==
    /\ pc = "optimize"
    /\ LET lp == BuildModel("optimize")
           V == Vertices(lp)
           status == LpStatus(lp, V)
       IN  /\ lp_solves' = Append(lp_solves, <<"optimize", status>>)
           /\ IF status = "Optimal"
              THEN /\ \E p \in OptimalVertices(lp, V) : opt_vars' = VarValues(lp, p)
                   /\ pc' = "format_success"
              ELSE /\ pc' = "max_rate"
                   /\ UNCHANGED opt_vars
    /\ UNCHANGED <<input_data, solution, belts_state, constants,
                   raw_items_order, recipe_vars, max_rate>>

----------------------------------------------------------------------------
(* _format_success_output: mappings are written in insertion order, so each
   is a sequence of <<key, value>> *)

\* val if val > TOLERANCE else 0.0
Clamped(val) == IF QLt(zero, val) THEN val ELSE zero

per_recipe_crafts_per_min ==
    [r \in Range(constants.recipe_names) |-> Clamped(opt_vars[r])]

MachineUsage(m_type, rates) ==
    QSum([r \in DOMAIN rates |-> QMul(constants.machine_costs[r], rates[r])],
         {r \in DOMAIN rates : constants.recipe_machines[r] = m_type})

Consumption(item, rates) ==
    QNeg(QSum([r \in DOMAIN rates |-> QMul(NetCoefficient(r, item), rates[r])],
              DOMAIN rates))

\* the entries <<k, value[k]>> for the keys of order whose value is > tol
EmittedAbove(order, value) ==
    LET all == [i \in 1..Len(order) |-> <<order[i], value[order[i]]>>]
    IN  SelectSeq(all, LAMBDA kv : QLt(zero, kv[2]))

per_machine_counts ==
    EmittedAbove(constants.machine_types,
                 [m \in Range(constants.machine_types) |->
                     MachineUsage(m, per_recipe_crafts_per_min)])

\* for item in constants["raw_items"]: in the order the set iterates
RawConsumptionIn(order) ==
    EmittedAbove(order,
                 [i \in Range(order) |->
                     Consumption(i, per_recipe_crafts_per_min)])

FactorySuccessDoc ==
    [NoFactorySolution EXCEPT
        !.status = "ok",
        !.keys = {"status", "per_recipe_crafts_per_min", "per_machine_counts",
                  "raw_consumption_per_min"},
        !.per_recipe_crafts_per_min =
            [i \in 1..Len(constants.recipe_names) |->
                <<constants.recipe_names[i],
                  per_recipe_crafts_per_min[constants.recipe_names[i]]>>],
        !.per_machine_counts = per_machine_counts,
        !.raw_consumption_per_min = RawConsumptionIn(raw_items_order)]

FormatSuccessOutput ==
    /\ pc = "format_success"
    /\ solution' = FactorySuccessDoc
    /\ pc' = "done"
    /\ UNCHANGED <<input_data, belts_state, factory_state>>

----------------------------------------------------------------------------
(* _solve_and_format_max_rate *)

Hint(name, kind) == [name |-> name, kind |-> kind]

FundamentalDoc ==
    [NoFactorySolution EXCEPT
        !.status = "infeasible",
        !.keys = {"status", "max_feasible_target_per_min", "bottleneck_hint"},
        !.max_feasible_target_per_min = zero,
        !.bottleneck_hint = <<Hint(NoItem, "fundamentally infeasible")>>]

\* abs(constraint.slack) < TOLERANCE for a machine cap
MachineCapTight(m_type, rates) ==
    MachineUsage(m_type, rates) = FractionOf(constants.machine_caps[m_type])

\* balance <= -cap + TOLERANCE for a raw cap
RawCapTight(item, rates) ==
    QLe(QNeg(Consumption(item, rates)), QNeg(FractionOf(constants.raw_caps[item])))

\* sorted(list(set(bottleneck_hint))) or ["Unknown bottleneck"]: "<m> cap" and
\* "<i> supply" sort by their names
bottleneck_hint(lp, rates) ==
    LET capped == {lp.rows[i].item :
                     i \in {j \in 1..Len(lp.rows) : lp.rows[j].name = "C_Machine_Cap"}}
        raws == {lp.rows[i].item :
                   i \in {j \in 1..Len(lp.rows) : lp.rows[j].name = "C_Raw_Cap"}}
        tight == {m \in capped : MachineCapTight(m, rates)}
                 \cup {i \in raws : RawCapTight(i, rates)}
        names == Sorted(tight)
    IN  IF tight = {} THEN <<Hint(NoItem, "Unknown bottleneck")>>
        ELSE [k \in 1..Len(names) |->
                 Hint(names[k], IF names[k] \in capped THEN "cap" ELSE "supply")]

MaxRateDoc(lp, rates, rate) ==
    [NoFactorySolution EXCEPT
        !.status = "infeasible",
        !.keys = {"status", "max_feasible_target_per_min", "bottleneck_hint"},
        !.max_feasible_target_per_min = IF QLt(rate, zero) THEN zero ELSE rate,
        !.bottleneck_hint = bottleneck_hint(lp, rates)]

SolveAndFormatMaxRate ==
    /\ pc = "max_rate"
    /\ LET lp == BuildModel("maximize_rate")
           V == Vertices(lp)
           status == LpStatus(lp, V)
       IN  /\ lp_solves' = Append(lp_solves, <<"maximize_rate", status>>)
           /\ IF status # "Optimal"
              THEN /\ solution' = FundamentalDoc
                   /\ UNCHANGED <<recipe_vars, max_rate>>
              ELSE \E p \in OptimalVertices(lp, V) :
                      /\ recipe_vars' = VarValues(lp, p)
                      /\ max_rate' = ObjectiveAt(lp, p)
                      /\ solution' = MaxRateDoc(lp, VarValues(lp, p),
                                                ObjectiveAt(lp, p))
    /\ pc' = "done"
    /\ UNCHANGED <<input_data, belts_state, constants, raw_items_order,
                   opt_vars>>

----------------------------------------------------------------------------
(* Factory: one request per run *)

\* a regular request with up to two changes, the second from `second`
StartFactory(second) ==
    /\ \E chain \in BOOLEAN, a1 \in 1..MaxQty, a2 \in 1..MaxQty,
          rc \in 1..MaxCap, mc \in 1..MaxCap, rate \in 0..MaxRate,
          c1 \in Departures, c2 \in second :
          input_data =
             Depart(Depart(RegularRequest(chain, a1, a2, rc, mc, rate), c1), c2)
    /\ pc = "factory_main"
    /\ solution = NoFactorySolution
    /\ node_data = <<>>
    /\ G_cap = <<>>
    /\ G_nodes = {}
    /\ node_balance = <<>>
    /\ total_demand_required = 0
    /\ flow_dict = <<>>
    /\ constants = <<>>
    /\ raw_items_order = <<>>
    /\ lp_solves = <<>>
    /\ opt_vars = <<>>
    /\ recipe_vars = <<>>
    /\ max_rate = zero

InitFactory == StartFactory(Departures)
InitFactoryCore == StartFactory({"none"})

\* the green_circuit sample and its neighbours
InitFactorySample ==
    /\ \E k \in 0..SampleRateSteps,
          iron_cap \in {Decimal(5000, 0), Decimal(1000, 0)},
          asm_prod \in {Decimal(0, 2), Absent},
          chem_prod \in {Decimal(0, 4), Absent} :
          input_data =
             SampleRequest(Decimal(k * SampleRateStep, 0), iron_cap, asm_prod,
                           chem_prod)
    /\ pc = "factory_main"
    /\ solution = NoFactorySolution
    /\ node_data = <<>>
    /\ G_cap = <<>>
    /\ G_nodes = {}
    /\ node_balance = <<>>
    /\ total_demand_required = 0
    /\ flow_dict = <<>>
    /\ constants = <<>>
    /\ raw_items_order = <<>>
    /\ lp_solves = <<>>
    /\ opt_vars = <<>>
    /\ recipe_vars = <<>>
    /\ max_rate = zero

NextFactory ==
    \/ FactoryMain
    \/ Preprocess
    \/ SolveOptimize
    \/ FormatSuccessOutput
    \/ SolveAndFormatMaxRate

SpecFactory == InitFactory /\ [][NextFactory]_vars
SpecFactoryCore == InitFactoryCore /\ [][NextFactory]_vars
SpecFactorySample == InitFactorySample /\ [][NextFactory]_vars

----------------------------------------------------------------------------
(* What the factory claims speak of: the request and the response *)

FactoryDone == pc = "done"
FactoryOk == FactoryDone /\ solution.status = "ok"

\* the rates an "ok" response reports, recipe -> rate
ReportedRates ==
    LET s == solution.per_recipe_crafts_per_min
    IN  [r \in {s[i][1] : i \in 1..Len(s)} |->
            s[CHOOSE i \in 1..Len(s) : s[i][1] = r][2]]

\* the value a written mapping holds for key k
Reported(mapping, k) ==
    mapping[CHOOSE i \in 1..Len(mapping) : mapping[i][1] = k][2]

KeysOf(mapping) == {mapping[i][1] : i \in 1..Len(mapping)}

ReqAmount(amounts, i) == IF i \in DOMAIN amounts THEN amounts[i] ELSE 0

ReqProd(r) ==
    LET m == recipes[r].machine
    IN  IF m \in DOMAIN modules /\ modules[m].prod # Absent THEN modules[m].prod ELSE 0

ReqSpeed(r) ==
    LET m == recipes[r].machine
    IN  IF m \in DOMAIN modules /\ modules[m].speed # Absent THEN modules[m].speed ELSE 0

\* B_i(x) = sum over recipes of (out * (1 + prod) - in) * x_r
NetBalance(i, x) ==
    QSum([r \in DOMAIN recipes |->
             QMul(FractionOf(ReqAmount(recipes[r].out, i) * (1 + ReqProd(r))
                             - ReqAmount(recipes[r].in, i)),
                  x[r])],
         DOMAIN recipes)

\* c_r = time_s / (crafts_per_min * (1 + speed) * 60)
CostCoefficient(r) ==
    Fraction(recipes[r].time_s,
             machines[recipes[r].machine] * (1 + ReqSpeed(r)) * 60)

\* sum of c_r * x_r over the recipes of R
UsageOver(R, x) ==
    QSum([r \in R |-> QMul(CostCoefficient(r), x[r])], R)

RecipesOn(m) == {r \in DOMAIN recipes : recipes[r].machine = m}

ProducedItems == UNION {DOMAIN recipes[r].out : r \in DOMAIN recipes}
ConsumedItems == UNION {DOMAIN recipes[r].in : r \in DOMAIN recipes}
RawItems == DOMAIN limits.raw_supply_per_min
IntermediateItems == (ProducedItems \ RawItems) \ {target.item}

\* C14: two runs on the same request write the same response: the key order
\* of every written mapping and the order of every written list is a
\* function of the request and never of the order in which a set iterates.
\* Stated on one run: the response equals the one any other iteration order
\* of the set of raw items gives.
C14_OrderIndependent ==
    FactoryOk =>
        \A order \in Orders(constants.raw_items) :
            solution = [FactorySuccessDoc EXCEPT
                           !.raw_consumption_per_min = RawConsumptionIn(order)]

\* C15: in an "ok" response the net balance of the target item under the
\* reported rates equals the requested rate_per_min, also when the target
\* item appears in no recipe.
C15_TargetBalance ==
    FactoryOk =>
        NetBalance(target.item, ReportedRates) = FractionOf(target.rate_per_min)

\* C16: in an "ok" response every intermediate item (produced by some
\* recipe, not raw, not the target) has net balance 0 under the reported
\* rates.
C16_IntermediateBalance ==
    FactoryOk =>
        \A i \in IntermediateItems : NetBalance(i, ReportedRates) = zero

\* an "ok" response whose rates make and use up an intermediate item
C16_Witness ==
    /\ FactoryOk
    /\ \E i \in IntermediateItems :
          \E r \in DOMAIN recipes :
             /\ i \in DOMAIN recipes[r].out
             /\ QLt(zero, ReportedRates[r])

\* C17: in an "ok" response every item of limits.raw_supply_per_min with cap
\* `cap` has -cap <= B_i(x) <= 0 under the reported rates.
C17_RawBalance ==
    FactoryOk =>
        \A i \in RawItems :
            /\ QLe(QNeg(FractionOf(limits.raw_supply_per_min[i])),
                   NetBalance(i, ReportedRates))
            /\ QLe(NetBalance(i, ReportedRates), zero)

\* C18: in an "ok" response, for every machine type m with a cap M_m in
\* limits.max_machines, the sum of c_r * x_r over the recipes on m is at
\* most M_m.
C18_MachineCaps ==
    FactoryOk =>
        \A m \in DOMAIN limits.max_machines :
            QLe(UsageOver(RecipesOn(m), ReportedRates),
                FractionOf(limits.max_machines[m]))

\* an "ok" response that uses a capped machine type to its cap
C18_Witness ==
    /\ FactoryOk
    /\ \E m \in DOMAIN limits.max_machines :
          /\ RecipesOn(m) # {}
          /\ UsageOver(RecipesOn(m), ReportedRates)
                = FractionOf(limits.max_machines[m])

\* C19: in an "ok" response, for every machine type m on which some recipe
\* runs, per_machine_counts holds m with the sum of c_r * x_r over the
\* recipes on m when that sum exceeds the tolerance, and omits m otherwise,
\* whether or not m has an entry in limits.max_machines.
C19_MachineCounts ==
    FactoryOk =>
        \A m \in {recipes[r].machine : r \in DOMAIN recipes} :
            LET usage == UsageOver(RecipesOn(m), ReportedRates)
            IN  IF QLt(zero, usage)
                THEN /\ m \in KeysOf(solution.per_machine_counts)
                     /\ Reported(solution.per_machine_counts, m) = usage
                ELSE m \notin KeysOf(solution.per_machine_counts)

\* the rate vectors compared with the reported one: multiples of 1/GridStep
\* up to GridMax
GridStep == 2
GridMax == 3

RateGrid == {Fraction(k, GridStep) : k \in 0..(GridStep * GridMax)}

\* x satisfies the target, intermediate, raw-supply and machine-cap
\* constraints of the request
SatisfiesRequest(x) ==
    /\ NetBalance(target.item, x) = FractionOf(target.rate_per_min)
    /\ \A i \in IntermediateItems : NetBalance(i, x) = zero
    /\ \A i \in RawItems :
          /\ QLe(QNeg(FractionOf(limits.raw_supply_per_min[i])), NetBalance(i, x))
          /\ QLe(NetBalance(i, x), zero)
    /\ \A m \in DOMAIN limits.max_machines :
          QLe(UsageOver(RecipesOn(m), x), FractionOf(limits.max_machines[m]))

\* C20: in an "ok" response the reported rates minimize total machine usage:
\* no non-negative rate vector that satisfies the request's constraints has
\* a smaller sum of c_r * x_r.
C20_MinimalUsage ==
    FactoryOk =>
        \A x \in [DOMAIN recipes -> RateGrid] :
            SatisfiesRequest(x) =>
                QLe(UsageOver(DOMAIN recipes, ReportedRates),
                    UsageOver(DOMAIN recipes, x))

\* an "ok" response that leaves aside a vector that satisfies the request
\* with a larger usage
C20_Witness ==
    /\ FactoryOk
    /\ QLt(zero, UsageOver(DOMAIN recipes, ReportedRates))
    /\ \E x \in [DOMAIN recipes -> RateGrid] :
          /\ SatisfiesRequest(x)
          /\ QLt(UsageOver(DOMAIN recipes, ReportedRates),
                 UsageOver(DOMAIN recipes, x))

----------------------------------------------------------------------------
(* The "infeasible" responses of the factory *)

FactoryInfeasible == FactoryDone /\ solution.status = "infeasible"

\* the response was written from a max-rate LP that ended Optimal
MaxRateOptimal ==
    /\ FactoryInfeasible
    /\ lp_solves # <<>>
    /\ lp_solves[Len(lp_solves)] = <<"maximize_rate", "Optimal">>

\* x is non-negative and satisfies the intermediate, raw-supply and
\* machine-cap constraints of the request
WithinLimits(x) ==
    /\ \A r \in DOMAIN x : QLe(zero, x[r])
    /\ \A i \in IntermediateItems : NetBalance(i, x) = zero
    /\ \A i \in RawItems :
          /\ QLe(QNeg(FractionOf(limits.raw_supply_per_min[i])), NetBalance(i, x))
          /\ QLe(NetBalance(i, x), zero)
    /\ \A m \in DOMAIN limits.max_machines :
          QLe(UsageOver(RecipesOn(m), x), FractionOf(limits.max_machines[m]))

\* the target rates T >= 0 that the rate vectors of the grid achieve
AchievableRates ==
    {T \in {NetBalance(target.item, x) :
              x \in {y \in [DOMAIN recipes -> RateGrid] : WithinLimits(y)}} :
        QLe(zero, T)}

\* C21: in an "infeasible" response that comes from an optimal max-rate LP,
\* max_feasible_target_per_min is the largest T >= 0 for which some
\* non-negative rate vector satisfies the request's constraints with target
\* balance T: the rates of the max-rate optimum achieve it and no vector
\* achieves more; it is non-negative and, for a requested rate >= 0,
\* strictly smaller than the requested rate.
C21_MaxFeasibleRate ==
    MaxRateOptimal =>
        LET T == solution.max_feasible_target_per_min
        IN  /\ QLe(zero, T)
            /\ target.rate_per_min >= 0 => QLt(T, FractionOf(target.rate_per_min))
            /\ WithinLimits(recipe_vars)
            /\ NetBalance(target.item, recipe_vars) = T
            /\ \A U \in AchievableRates : QLe(U, T)

\* the capped machine types whose usage under x equals the cap
TightMachines(x) ==
    {m \in DOMAIN limits.max_machines :
        UsageOver(RecipesOn(m), x) = FractionOf(limits.max_machines[m])}

\* the capped raw items whose net balance under x equals -cap
TightRawItems(x) ==
    {i \in RawItems :
        NetBalance(i, x) = QNeg(FractionOf(limits.raw_supply_per_min[i]))}

\* "<m> cap" for the tight machine types and "<i> supply" for the tight raw
\* items
TightHints(x) ==
    {Hint(m, "cap") : m \in TightMachines(x)}
    \cup {Hint(i, "supply") : i \in TightRawItems(x)}

\* C22: in an "infeasible" response from an optimal max-rate LP,
\* bottleneck_hint is the sorted, duplicate-free list that holds "<m> cap"
\* for exactly the capped machine types whose usage at the max-rate optimum
\* equals the cap and "<i> supply" for exactly the capped raw items whose
\* net balance equals -cap; when there is no such element the list is
\* ["Unknown bottleneck"], so the list is never empty.
C22_BottleneckHint ==
    MaxRateOptimal =>
        LET h == solution.bottleneck_hint
            expected == TightHints(recipe_vars)
        IN  /\ h # <<>>
            /\ expected = {} => h = <<Hint(NoItem, "Unknown bottleneck")>>
            /\ expected # {} =>
                  /\ Range(h) = expected
                  /\ Len(h) = Cardinality(expected)
                  /\ [k \in 1..Len(h) |-> h[k].name]
                        = Sorted({e.name : e \in expected})

----------------------------------------------------------------------------
(* The rejected requests of the factory *)

UnknownMachine(r) == recipes[r].machine \notin DOMAIN machines
NonPositiveTime(r) == recipes[r].time_s <= 0
MissingTarget == target.item = NoItem \/ target.rate_per_min = Absent

\* C23: a request in which some recipe names a machine absent from
\* `machines`, some recipe has time_s <= 0, or the target item or rate is
\* missing is answered {status: "error", message}; on such a run no LP is
\* built or solved and no rates are reported.
C23_RejectedRequests ==
    (\/ \E r \in DOMAIN recipes : UnknownMachine(r) \/ NonPositiveTime(r)
     \/ MissingTarget) =>
        /\ pc \notin {"optimize", "format_success", "max_rate"}
        /\ lp_solves = <<>>
        /\ opt_vars = <<>> /\ recipe_vars = <<>>
        /\ solution.per_recipe_crafts_per_min = <<>>
        /\ FactoryDone =>
              /\ solution.status = "error"
              /\ solution.keys = {"status", "message"}
              /\ solution.message.kind # "none"

\* a finished run rejected for a recipe with time_s <= 0, its machine known
\* and its target named
C23_Witness ==
    /\ FactoryDone
    /\ ~MissingTarget
    /\ \E r \in DOMAIN recipes : NonPositiveTime(r) /\ ~UnknownMachine(r)
    /\ solution.status = "error"
    /\ solution.message.kind = "invalid time_s"

----------------------------------------------------------------------------
\* the items of the recipes that are neither the target nor raw
UnlistedItems == ((ProducedItems \cup ConsumedItems) \ {target.item}) \ RawItems

\* C25: in an "ok" response every item that appears in some recipe and is
\* neither the target nor listed in limits.raw_supply_per_min has net
\* balance zero under the reported rates, also an item that recipes only
\* consume and no recipe produces.
C25_UnlistedBalance ==
    FactoryOk =>
        \A i \in UnlistedItems : NetBalance(i, ReportedRates) = zero

----------------------------------------------------------------------------
(* Belts: the net balances of the transformed instance *)

\* the transformed instance has been built
Transformed == G_cap # <<>>

CapacityOutOfSStar ==
    SumOver(G_cap, {e \in DOMAIN G_cap : e[1] = S_STAR})

\* the lower bounds of the request's edges that leave n, and that enter n
LoLeaving(n) ==
    SeqSum([i \in 1..Len(ReqEdges) |->
               IF ReqEdges[i].from = n THEN ReqEdges[i].lo ELSE 0])
LoEntering(n) ==
    SeqSum([i \in 1..Len(ReqEdges) |->
               IF ReqEdges[i].to = n THEN ReqEdges[i].lo ELSE 0])

\* the balance the request gives to the _out and to the _in copy of n
RequestBalanceOut(n) ==
    (IF n \in DOMAIN ReqSources THEN ReqSources[n] ELSE 0) - LoLeaving(n)
RequestBalanceIn(n) ==
    LoEntering(n) - (IF n = ReqSink THEN TotalSupply(ReqSources) ELSE 0)

\* C26: in the transformed instance built for an accepted request the net
\* balances sum to zero, so the capacity leaving S* equals the capacity R
\* entering T*: every source adds +supply at its _out copy, the sink adds
\* -(total supply) at its _in copy and every lower bound adds -lo at u_out
\* and +lo at v_in, also when a source is listed in `nodes` as well or is
\* the sink.
C26_BalancesSumToZero ==
    Transformed =>
        /\ SumOver(node_balance, DOMAIN node_balance) = 0
        /\ CapacityOutOfSStar = CapacityIntoTStar
        /\ total_demand_required = CapacityIntoTStar
        /\ \A n \in Declared :
              /\ node_balance[OutName(n)] = RequestBalanceOut(n)
              /\ node_balance[InName(n)] = RequestBalanceIn(n)

----------------------------------------------------------------------------
\* _preprocess_constants has returned
Preprocessed == constants # <<>>

\* C27: after _preprocess_constants the raw items, the target item and the
\* intermediate items are pairwise disjoint; in particular a target item
\* that some recipe produces is not in intermediate_items.
C27_DisjointClasses ==
    Preprocessed =>
        /\ constants.raw_items \cap constants.intermediate_items = {}
        /\ constants.target_item \notin constants.raw_items
        /\ constants.target_item \notin constants.intermediate_items

----------------------------------------------------------------------------
(* The order of the LP solves of one request *)

\* the log of the solves is empty, or holds the optimize solve, or holds an
\* optimize solve that did not end Optimal and then the max-rate solve
SolvesInOrder ==
    \/ lp_solves = <<>>
    \/ /\ Len(lp_solves) = 1
       /\ lp_solves[1][1] = "optimize"
    \/ /\ Len(lp_solves) = 2
       /\ lp_solves[1][1] = "optimize" /\ lp_solves[1][2] # "Optimal"
       /\ lp_solves[2][1] = "maximize_rate"

OptimizeWasOptimal ==
    lp_solves # <<>> /\ lp_solves[1] = <<"optimize", "Optimal">>

MaxRateNotOptimal ==
    Len(lp_solves) = 2 /\ lp_solves[2][2] # "Optimal"

\* the response of a finished run follows the statuses of the solves
ResponseFollowsStatus ==
    FactoryDone =>
        /\ (solution.status = "ok") <=> OptimizeWasOptimal
        /\ MaxRateNotOptimal =>
              /\ solution.status = "infeasible"
              /\ solution.max_feasible_target_per_min = zero
              /\ solution.bottleneck_hint
                    = <<Hint(NoItem, "fundamentally infeasible")>>

\* a step solves at most one LP, and the max-rate LP is being solved only
\* after an optimize solve that did not end Optimal
OneSolvePerStep ==
    /\ lp_solves' # lp_solves =>
          /\ Len(lp_solves') = Len(lp_solves) + 1
          /\ SubSeq(lp_solves', 1, Len(lp_solves)) = lp_solves
    /\ pc' = "max_rate" =>
          /\ Len(lp_solves') = 1
          /\ lp_solves'[1][2] # "Optimal"

\* C28: the optimize LP is always solved first; the max-rate LP is built
\* and solved only after the optimize LP ended with a status other than
\* Optimal, so at most two LPs are solved per request; the response is "ok"
\* if and only if the optimize LP was Optimal, and if the max-rate LP is not
\* Optimal either the response is "infeasible" with
\* max_feasible_target_per_min = 0.0 and a single generic hint.
C28_SolveOrder ==
    /\ [](SolvesInOrder /\ ResponseFollowsStatus)
    /\ [][OneSolvePerStep]_vars

\* a finished run whose two LPs both ended with a status other than Optimal
C28_Witness ==
    /\ FactoryDone
    /\ MaxRateNotOptimal
    /\ solution.status = "infeasible"

----------------------------------------------------------------------------
(* A recipe chain with a single way to make each item *)

\* the prod and speed of the module on the machine of recipe r, 0 if none
ProdOf(r) ==
    LET m == recipes[r].machine
    IN  IF m \in DOMAIN modules /\ modules[m].prod # Absent
        THEN FractionOf(modules[m].prod) ELSE zero

SpeedOf(r) ==
    LET m == recipes[r].machine
    IN  IF m \in DOMAIN modules /\ modules[m].speed # Absent
        THEN FractionOf(modules[m].speed) ELSE zero

\* every recipe makes one item and every item is made by one recipe at most
SingleWay ==
    /\ \A r \in DOMAIN recipes : Cardinality(DOMAIN recipes[r].out) = 1
    /\ \A r1, r2 \in DOMAIN recipes :
          DOMAIN recipes[r1].out \cap DOMAIN recipes[r2].out # {} => r1 = r2

OutputOf(r) == CHOOSE i \in DOMAIN recipes[r].out : TRUE

\* the amount of item i demanded per minute, and the rate at which recipe r
\* must run to make the demanded amount of its output:
\* demand / (out_amount * (1 + prod)), its inputs drawn at in_amount * rate
RECURSIVE Demanded(_)
RECURSIVE ChainRate(_)
Demanded(i) ==
    IF i = target.item THEN FractionOf(target.rate_per_min)
    ELSE LET users == {r \in DOMAIN recipes : i \in DOMAIN recipes[r].in}
         IN  QSum([r \in users |->
                      QMul(FractionOf(recipes[r].in[i]), ChainRate(r))], users)

ChainRate(r) ==
    QDiv(Demanded(OutputOf(r)),
         QMul(FractionOf(recipes[r].out[OutputOf(r)]), QAdd(one, ProdOf(r))))

\* the machines recipe r needs at rate x: x * time_s / (crafts_per_min *
\* (1 + speed) * 60), productivity left out
MachinesAt(r, x) ==
    QDiv(QMul(x, FractionOf(recipes[r].time_s)),
         QMul(QMul(FractionOf(machines[recipes[r].machine]),
                   QAdd(one, SpeedOf(r))), sixty))

\* the entries a written mapping should hold: the values above the tolerance
AboveTolerance(value) ==
    {<<k, value[k]>> : k \in {x \in DOMAIN value : QLt(zero, value[x])}}

\* the numbers of the green_circuit sample
SampleGreenCircuit == QDiv(<<1800, 1>>, <<11, 10>>)
SampleIronPlate == QDiv(SampleGreenCircuit, <<12, 10>>)
SampleCopperPlate == QDiv(QMul(<<3, 1>>, SampleGreenCircuit), <<12, 10>>)

\* C24: for a recipe chain with a single way to make each item the "ok"
\* response is the one solution in which productivity multiplies outputs
\* only: each recipe runs at the demanded amount of its output divided by
\* out_amount * (1 + prod) and draws its inputs at in_amount * rate.  For
\* the green_circuit sample: green_circuit = 1800/1.1, iron_plate =
\* green_circuit/1.2, copper_plate = 3 * green_circuit/1.2, machine counts
\* assembler_1 = green_circuit/4140 and chemical = (iron_plate +
\* copper_plate)/1237.5, raw consumption equal to the two plate rates.
C24_ChainRates ==
    (FactoryOk /\ SingleWay) =>
        /\ \A r \in DOMAIN recipes : ReportedRates[r] = ChainRate(r)
        /\ Range(solution.raw_consumption_per_min)
              = AboveTolerance([i \in RawItems |-> Demanded(i)])
        /\ Range(solution.per_machine_counts)
              = AboveTolerance(
                   [m \in DOMAIN limits.max_machines |->
                       QSum([r \in RecipesOn(m) |-> MachinesAt(r, ChainRate(r))],
                            RecipesOn(m))])
        /\ input_data = GreenCircuitSample =>
              /\ ReportedRates["green_circuit"] = SampleGreenCircuit
              /\ ReportedRates["iron_plate"] = SampleIronPlate
              /\ ReportedRates["copper_plate"] = SampleCopperPlate
              /\ Range(solution.per_machine_counts)
                    = {<<"assembler_1", QDiv(SampleGreenCircuit, <<4140, 1>>)>>,
                       <<"chemical",
                         QDiv(QAdd(SampleIronPlate, SampleCopperPlate),
                              <<12375, 10>>)>>}
              /\ Range(solution.raw_consumption_per_min)
                    = {<<"iron_ore", SampleIronPlate>>,
                       <<"copper_ore", SampleCopperPlate>>}

\* the "ok" response to the green_circuit sample itself
C24_Witness ==
    /\ FactoryOk
    /\ SingleWay
    /\ input_data = GreenCircuitSample
    /\ \A r \in DOMAIN recipes : QLt(zero, ReportedRates[r])

====
